---- MODULE Spec2Model ----
(***************************************************************************)
(* Lenient JSON recovery from model output: parse_json_response of         *)
(* tools/gemini.py.  Texts are sequences of one-character strings.  The    *)
(* function is pure; the state machine composes a response text (a body    *)
(* between a leading and a trailing part) and applies the function to it.  *)
(***************************************************************************)
EXTENDS Integers, Sequences, FiniteSets, TLC

VARIABLES before, body, after, pc, result

\* extract_chapter_text: its arguments, its position and its outcome.
VARIABLES full_text, start_pos, end_pos, cpc, chapter

chapterVars == <<full_text, start_pos, end_pos, cpc, chapter>>

vars == <<before, body, after, pc, result, chapterVars>>

(* ---------------- bounds of the model ---------------- *)

\* Longest body typed character by character.
MaxLen == 3

\* Nesting depth of the values whose serialisation seeds a body.
MaxDepth == 1

\* Longest book text given to extract_chapter_text.
MaxText == 3

\* How far below 0 and beyond the longest text the positions range.
MaxPos == 2

(* ---------------- characters ---------------- *)

LB == "["
RB == "]"
LC == "{"
RC == "}"
QT == "\""
CL == ":"
CM == ","
SP == " "
NL == "\n"
\* The backtick, which a TLA+ string cannot spell.
BT == "bt"

\* The characters a body is typed from: brackets, quote, the digit 1, the
\* two white-space characters and a prose letter.  Colon, comma and the words
\* null and true come with the serialised bodies, backticks with the parts
\* around the body.
Chars == {LB, RB, LC, RC, QT, "1", SP, NL, "x"}

\* str.strip() and the WHITESPACE of the json module, restricted to Chars.
IsSpace(c) == c \in {SP, NL, "\t", "\r"}

Digits == <<"0", "1", "2", "3", "4", "5", "6", "7", "8", "9">>

IsDigit(c) == \E d \in 1..10 : Digits[d] = c

DigitVal(c) == (CHOOSE d \in 1..10 : Digits[d] = c) - 1

(* ---------------- string helpers (str methods) ---------------- *)

Min(a, b) == IF a < b THEN a ELSE b

\* s[:n]
Take(s, n) == SubSeq(s, 1, Min(n, Len(s)))

\* s[n:]  (n counts the characters dropped)
Drop(s, n) == SubSeq(s, n + 1, Len(s))

\* s.startswith(p)
StartsWith(s, p) == Len(s) >= Len(p) /\ SubSeq(s, 1, Len(p)) = p

\* s.lstrip(), s.rstrip(), s.strip()
RECURSIVE LStrip(_)
LStrip(s) == IF s # <<>> /\ IsSpace(s[1]) THEN LStrip(Tail(s)) ELSE s

RECURSIVE RStrip(_)
RStrip(s) ==
    IF s # <<>> /\ IsSpace(s[Len(s)]) THEN RStrip(SubSeq(s, 1, Len(s) - 1)) ELSE s

Strip(s) == RStrip(LStrip(s))

\* s.split("\n"): always at least one line.
RECURSIVE Split(_)
Split(s) ==
    LET nls == {i \in 1..Len(s) : s[i] = NL}
    IN  IF nls = {} THEN <<s>>
        ELSE LET k == CHOOSE i \in nls : \A j \in nls : i <= j
             IN  <<SubSeq(s, 1, k - 1)>> \o Split(Drop(s, k))

\* "\n".join(lines)
RECURSIVE Join(_)
Join(lines) ==
    IF lines = <<>> THEN <<>>
    ELSE IF Len(lines) = 1 THEN lines[1]
    ELSE lines[1] \o <<NL>> \o Join(Tail(lines))

Fence == <<BT, BT, BT>>

(* ---------------- JSON values ---------------- *)

\* A decoded value is a tagged tuple.  A dict is its list of <<key, value>>
\* pairs in insertion order, one pair per key.
Null == <<"null">>
Bool(b) == <<"bool", b>>
Num(n) == <<"num", n>>
Str(cs) == <<"str", cs>>
Arr(items) == <<"arr", items>>
Obj(pairs) == <<"obj", pairs>>

Tag(v) == v[1]

IsStructured(v) == Tag(v) \in {"arr", "obj"}

(* ---------------- json.loads ---------------- *)

\* The decoder of the standard library, for the part of the grammar the
\* model's texts can spell: null, true, false, unsigned integers, strings
\* without escapes, arrays and objects.

Bad == [ok |-> FALSE, v |-> Null, end |-> 0]

Good(v, e) == [ok |-> TRUE, v |-> v, end |-> e]

\* s[i:i+1]
CharAt(s, i) == IF i >= 1 /\ i <= Len(s) THEN s[i] ELSE ""

\* WHITESPACE.match(s, i).end()
SkipWs(s, i) ==
    LET stop == {j \in i..(Len(s) + 1) : ~IsSpace(CharAt(s, j))}
    IN  CHOOSE j \in stop : \A k \in stop : j <= k

\* s[i:].startswith(lit)
StartsAt(s, i, lit) ==
    /\ i + Len(lit) - 1 <= Len(s)
    /\ SubSeq(s, i, i + Len(lit) - 1) = lit

\* py_scanstring in strict mode; i is the index after the opening quote.
ScanString(s, i) ==
    LET quotes == {j \in i..Len(s) : s[j] = QT}
    IN  IF quotes = {} THEN Bad
        ELSE LET j == CHOOSE q \in quotes : \A k \in quotes : q <= k
                 chunk == SubSeq(s, i, j - 1)
             IN  IF \E k \in 1..Len(chunk) : chunk[k] \in {NL, "\t", "\r"}
                 THEN Bad
                 ELSE Good(Str(chunk), j + 1)

RECURSIVE IntOf(_)
IntOf(ds) ==
    IF ds = <<>> THEN 0
    ELSE 10 * IntOf(SubSeq(ds, 1, Len(ds) - 1)) + DigitVal(ds[Len(ds)])

\* NUMBER_RE, integer part: 0 or a run of digits that does not start with 0.
ScanNumber(s, i) ==
    IF CharAt(s, i) = "0" THEN Good(Num(0), i + 1)
    ELSE LET stop == {j \in i..(Len(s) + 1) : ~IsDigit(CharAt(s, j))}
             e == CHOOSE j \in stop : \A k \in stop : j <= k
         IN  IF e = i THEN Bad ELSE Good(Num(IntOf(SubSeq(s, i, e - 1))), e)

\* dict construction from the pairs: a repeated key keeps its place and
\* takes the last value.
PutPair(pairs, k, v) ==
    IF \E n \in 1..Len(pairs) : pairs[n][1] = k
    THEN [n \in 1..Len(pairs) |-> IF pairs[n][1] = k THEN <<k, v>> ELSE pairs[n]]
    ELSE Append(pairs, <<k, v>>)

RECURSIVE ScanOnce(_, _), ArrayRest(_, _, _), ObjectRest(_, _, _)

\* JSONArray after the first item position is known to hold a value.
ArrayRest(s, i, acc) ==
    LET r == ScanOnce(s, i)
    IN  IF ~r.ok THEN Bad
        ELSE LET k == SkipWs(s, r.end)
                 items == Append(acc, r.v)
             IN  IF CharAt(s, k) = RB THEN Good(Arr(items), k + 1)
                 ELSE IF CharAt(s, k) = CM
                      THEN ArrayRest(s, SkipWs(s, k + 1), items)
                      ELSE Bad

\* JSONObject at a position that must hold the opening quote of a key.
ObjectRest(s, i, acc) ==
    IF CharAt(s, i) # QT THEN Bad
    ELSE LET key == ScanString(s, i + 1)
         IN  IF ~key.ok THEN Bad
             ELSE LET c == SkipWs(s, key.end)
                  IN  IF CharAt(s, c) # CL THEN Bad
                      ELSE LET r == ScanOnce(s, SkipWs(s, c + 1))
                           IN  IF ~r.ok THEN Bad
                               ELSE LET k == SkipWs(s, r.end)
                                        pairs == PutPair(acc, key.v[2], r.v)
                                    IN  IF CharAt(s, k) = RC
                                        THEN Good(Obj(pairs), k + 1)
                                        ELSE IF CharAt(s, k) = CM
                                             THEN ObjectRest(s, SkipWs(s, k + 1), pairs)
                                             ELSE Bad

\* scanner.py_make_scanner._scan_once
ScanOnce(s, i) ==
    LET c == CharAt(s, i)
    IN  IF c = QT THEN ScanString(s, i + 1)
        ELSE IF c = LC
             THEN LET j == SkipWs(s, i + 1)
                  IN  IF CharAt(s, j) = RC THEN Good(Obj(<<>>), j + 1)
                      ELSE ObjectRest(s, j, <<>>)
        ELSE IF c = LB
             THEN LET j == SkipWs(s, i + 1)
                  IN  IF CharAt(s, j) = RB THEN Good(Arr(<<>>), j + 1)
                      ELSE ArrayRest(s, j, <<>>)
        ELSE IF StartsAt(s, i, <<"n", "u", "l", "l">>) THEN Good(Null, i + 4)
        ELSE IF StartsAt(s, i, <<"t", "r", "u", "e">>) THEN Good(Bool(TRUE), i + 4)
        ELSE IF StartsAt(s, i, <<"f", "a", "l", "s", "e">>) THEN Good(Bool(FALSE), i + 5)
        ELSE ScanNumber(s, i)

\* JSONDecoder.decode: one value, white space around it, nothing else.
\* ok = FALSE stands for json.JSONDecodeError.
Loads(s) ==
    LET r == ScanOnce(s, SkipWs(s, 1))
    IN  IF r.ok /\ SkipWs(s, r.end) = Len(s) + 1
        THEN [ok |-> TRUE, v |-> r.v]
        ELSE [ok |-> FALSE, v |-> Null]

(* ---------------- json.dumps ---------------- *)

RECURSIVE IntStr(_)
IntStr(n) ==
    IF n < 10 THEN <<Digits[n + 1]>>
    ELSE IntStr(n \div 10) \o <<Digits[(n % 10) + 1]>>

RECURSIVE Encode(_, _, _), EncodeItems(_, _, _), EncodePairs(_, _, _)

\* newline_indent of the encoder: with indent=2 a line break and two spaces
\* per level, without indent nothing.
Indent(pretty, level) ==
    IF pretty THEN <<NL>> \o [i \in 1..(2 * level) |-> SP] ELSE <<>>

\* The item separator: "," before a line break, ", " otherwise.
ItemSep(pretty, level) ==
    IF pretty THEN <<CM>> \o Indent(pretty, level) ELSE <<CM, SP>>

EncodeItems(items, pretty, level) ==
    IF Len(items) = 1 THEN Encode(items[1], pretty, level)
    ELSE Encode(items[1], pretty, level) \o ItemSep(pretty, level)
         \o EncodeItems(Tail(items), pretty, level)

EncodePairs(pairs, pretty, level) ==
    LET one == <<QT>> \o pairs[1][1] \o <<QT, CL, SP>>
               \o Encode(pairs[1][2], pretty, level)
    IN  IF Len(pairs) = 1 THEN one
        ELSE one \o ItemSep(pretty, level) \o EncodePairs(Tail(pairs), pretty, level)

\* JSONEncoder.iterencode at a nesting level.
Encode(v, pretty, level) ==
    CASE Tag(v) = "null" -> <<"n", "u", "l", "l">>
      [] Tag(v) = "bool" -> IF v[2] THEN <<"t", "r", "u", "e">>
                            ELSE <<"f", "a", "l", "s", "e">>
      [] Tag(v) = "num" -> IntStr(v[2])
      [] Tag(v) = "str" -> <<QT>> \o v[2] \o <<QT>>
      [] Tag(v) = "arr" ->
            IF v[2] = <<>> THEN <<LB, RB>>
            ELSE <<LB>> \o Indent(pretty, level + 1)
                 \o EncodeItems(v[2], pretty, level + 1)
                 \o Indent(pretty, level) \o <<RB>>
      [] Tag(v) = "obj" ->
            IF v[2] = <<>> THEN <<LC, RC>>
            ELSE <<LC>> \o Indent(pretty, level + 1)
                 \o EncodePairs(v[2], pretty, level + 1)
                 \o Indent(pretty, level) \o <<RC>>

\* json.dumps(v) and json.dumps(v, indent=2).
Dumps(v) == Encode(v, FALSE, 0)

DumpsIndent2(v) == Encode(v, TRUE, 0)

(* ---------------- parse_json_response ---------------- *)

\* The slice length of the error message, text[:200].
SnippetLen == 200

\* "Could not parse JSON from response: "
MsgPrefix ==
    <<"C", "o", "u", "l", "d", " ", "n", "o", "t", " ", "p", "a", "r", "s", "e",
      " ", "J", "S", "O", "N", " ", "f", "r", "o", "m", " ", "r", "e", "s", "p",
      "o", "n", "s", "e", ":", " ">>

MsgSuffix == <<".", ".", ".">>

\* Defence without the closing-fence test: only the first line goes.
DefenceFirstOnly(t) ==
    IF StartsWith(t, Fence) THEN Strip(Join(Tail(Split(t)))) ELSE t

\* Defence without the startswith test: the first line always goes.
DefenceAlways(t) ==
    LET lines == Split(t)
        kept == IF Strip(lines[Len(lines)]) = Fence
                THEN SubSeq(lines, 2, Len(lines) - 1)
                ELSE Tail(lines)
    IN  Strip(Join(kept))

\* Defence with the last line dropped whatever it holds: lines[1:-1].
DefenceDropLast(t) ==
    IF StartsWith(t, Fence)
    THEN LET lines == Split(t)
         IN  Strip(Join(SubSeq(lines, 2, Len(lines) - 1)))
    ELSE t

\* The fence removal of a stripped text: the first line goes, and the last
\* line too when it is a bare fence; the rest is joined and stripped.
Defence(t) ==
    IF StartsWith(t, Fence)
    THEN LET lines == Split(t)
             kept == IF Strip(lines[Len(lines)]) = Fence
                     THEN SubSeq(lines, 2, Len(lines) - 1)
                     ELSE Tail(lines)
         IN  Strip(Join(kept))
    ELSE t

\* re.search of open [\s\S]* close: from the first opening bracket to the
\* last closing bracket after it.
BracketSpan(t, open, close) ==
    LET opens == {i \in 1..Len(t) : t[i] = open}
    IN  IF opens = {} THEN [found |-> FALSE, s |-> <<>>]
        ELSE LET lo == CHOOSE i \in opens : \A j \in opens : i <= j
                 closes == {j \in (lo + 1)..Len(t) : t[j] = close}
             IN  IF closes = {} THEN [found |-> FALSE, s |-> <<>>]
                 ELSE LET hi == CHOOSE j \in closes : \A k \in closes : k <= j
                      IN  [found |-> TRUE, s |-> SubSeq(t, lo, hi)]

\* A non-greedy array pattern: from the first "[" to the first "]" after it.
ArrayMatchLazy(t) ==
    LET opens == {i \in 1..Len(t) : t[i] = LB}
    IN  IF opens = {} THEN [found |-> FALSE, s |-> <<>>]
        ELSE LET lo == CHOOSE i \in opens : \A j \in opens : i <= j
                 closes == {j \in (lo + 1)..Len(t) : t[j] = RB}
             IN  IF closes = {} THEN [found |-> FALSE, s |-> <<>>]
                 ELSE LET hi == CHOOSE j \in closes : \A k \in closes : j <= k
                      IN  [found |-> TRUE, s |-> SubSeq(t, lo, hi)]

ArrayMatch(t) == BracketSpan(t, LB, RB)

ObjectMatch(t) == BracketSpan(t, LC, RC)

Returned(v, how, t) ==
    [raised |-> FALSE, value |-> v, message |-> <<>>, strategy |-> how, text |-> t]

\* The raise without the slice: the whole text in the message.
RaisedWhole(t) ==
    [raised |-> TRUE, value |-> Null, message |-> MsgPrefix \o t \o MsgSuffix,
     strategy |-> "none", text |-> t]

Raised(t) ==
    [raised |-> TRUE, value |-> Null,
     message |-> MsgPrefix \o Take(t, SnippetLen) \o MsgSuffix,
     strategy |-> "none", text |-> t]

\* if match: try json.loads(match.group()), a failure when there is no
\* match or the span does not parse.
TrySpan(m) == IF m.found THEN Loads(m.s) ELSE [ok |-> FALSE, v |-> Null]

\* The returns in the order of the code: the direct parse, the array span,
\* the object span, else the raise.  strategy names the return taken.
Attempt(t, direct, arr, obj) ==
    IF direct.ok THEN Returned(direct.v, "direct", t)
    ELSE IF arr.ok THEN Returned(arr.v, "array", t)
    ELSE IF obj.ok THEN Returned(obj.v, "object", t)
    ELSE Raised(t)

\* Recover with the object pattern tried before the array pattern.
RecoverObjectFirst(t) ==
    LET direct == Loads(t)
        arr == TrySpan(ArrayMatch(t))
        obj == TrySpan(ObjectMatch(t))
    IN  IF direct.ok THEN Returned(direct.v, "direct", t)
        ELSE IF obj.ok THEN Returned(obj.v, "object", t)
        ELSE IF arr.ok THEN Returned(arr.v, "array", t)
        ELSE Raised(t)

\* Recover without the direct parse.
RecoverNoDirect(t) ==
    Attempt(t, [ok |-> FALSE, v |-> Null], TrySpan(ArrayMatch(t)),
            TrySpan(ObjectMatch(t)))

\* The three attempts on the stripped, de-fenced text and the final raise.
Recover(t) ==
    Attempt(t, Loads(t), TrySpan(ArrayMatch(t)), TrySpan(ObjectMatch(t)))

\* parse_json_response with the two patterns searched in the argument as it
\* was passed in, not in the de-fenced text.
ParseJsonResponseScanRaw(raw) ==
    LET t == Defence(Strip(raw))
    IN  Attempt(t, Loads(t), TrySpan(ArrayMatch(raw)), TrySpan(ObjectMatch(raw)))

ParseJsonResponse(raw) == Recover(Defence(Strip(raw)))

(* ---------------- the texts the function is applied to ---------------- *)

\* Prose longer than the snippet of the error message.
LongProse == [i \in 1..(SnippetLen + 1) |-> "x"]

\* What may precede the body: nothing, prose, an opening fence line, an
\* opening fence line with a language tag and white space before it, a fence
\* on the line of the body, a quote.
Befores ==
    { <<>>, <<"x", SP>>, Fence \o <<NL>>, <<SP>> \o Fence \o <<"x", NL>>, Fence,
      <<QT>> }

\* What may follow the body: nothing, prose, a closing fence line without and
\* with white space after it, a quote.
Afters ==
    { <<>>, <<SP, "x">>, <<NL>> \o Fence, <<NL>> \o Fence \o <<SP, NL>>, <<QT>> }

Atoms == {Null, Bool(TRUE), Num(1), Str(<<>>), Str(<<"x">>)}

\* The values serialised into a body, by nesting depth.
RECURSIVE Values(_)
Values(d) ==
    IF d = 0 THEN Atoms \cup {Arr(<<>>), Obj(<<>>)}
    ELSE LET inner == Values(d - 1)
         IN  inner
             \cup {Arr(<<v>>) : v \in inner}
             \cup {Arr(<<v, Num(1)>>) : v \in inner}
             \cup {Obj(<< <<k, v>> >>) : k \in {<<>>, <<"x">>}, v \in inner}

(* ---------------- extract_chapter_text ---------------- *)

Max(a, b) == IF a > b THEN a ELSE b

\* A slice index as the slice of a str of length n reads it: a negative
\* index counts from the end, and the result is clamped to 0..n.
SliceIndex(i, n) == IF i < 0 THEN Max(i + n, 0) ELSE Min(i, n)

\* s[a:b]
PySlice(s, a, b) ==
    SubSeq(s, SliceIndex(a, Len(s)) + 1, SliceIndex(b, Len(s)))

ChapterReturned(t) == [raised |-> FALSE, value |-> t, start |-> 0, end |-> 0]

\* raise ValueError with the clamped positions in the message.
ChapterRaised(s, e) == [raised |-> TRUE, value |-> <<>>, start |-> s, end |-> e]

\* The value of chapter before the call.
NoChapter == ChapterReturned(<<>>)

\* extract_chapter_text without the clamp of start_pos to 0.
ExtractNoStartClamp(text, sp, ep) ==
    LET e == Min(Len(text), ep)
    IN  IF sp >= e THEN ChapterRaised(sp, e)
        ELSE ChapterReturned(PySlice(text, sp, e))

ExtractChapterText(text, sp, ep) ==
    LET s == Max(0, sp)
        e == Min(Len(text), ep)
    IN  IF s >= e THEN ChapterRaised(s, e)
        ELSE ChapterReturned(PySlice(text, s, e))

\* The characters of a book text.
BookChars == {"a", "b"}

\* The positions a caller passes: from below 0 to beyond the longest text.
Positions == (0 - MaxPos)..(MaxText + MaxPos)

(* ---------------- the state machine ---------------- *)

\* The response text: the argument of parse_json_response.
input == before \o body \o after

\* The value of result before the call.
NoResult ==
    [raised |-> FALSE, value |-> Null, message |-> <<>>, strategy |-> "none",
     text |-> <<>>]

Init ==
    /\ before = <<>>
    /\ after = <<>>
    /\ body = <<>>
    /\ pc = "compose"
    /\ result = NoResult
    /\ full_text = <<>>
    /\ start_pos = 0
    /\ end_pos = 0
    /\ cpc = "idle"
    /\ chapter = NoChapter

\* The response body grows by one character.
Type(c) ==
    /\ pc = "compose"
    /\ Len(body) < MaxLen
    /\ body' = Append(body, c)
    /\ UNCHANGED <<before, after, pc, result, chapterVars>>

\* The response body is the serialisation of a value, compact or indented.
Seed(v, pretty) ==
    /\ pc = "compose"
    /\ body = <<>>
    /\ body' = IF pretty THEN DumpsIndent2(v) ELSE Dumps(v)
    /\ UNCHANGED <<before, after, pc, result, chapterVars>>

\* The response arrives as b, the body and a, and parse_json_response is
\* applied to it: it returns or raises.
Call(b, a) ==
    /\ pc = "compose"
    /\ before' = b
    /\ after' = a
    /\ result' = ParseJsonResponse(b \o body \o a)
    /\ pc' = IF result'.raised THEN "raised" ELSE "returned"
    /\ UNCHANGED <<body, chapterVars>>

Next ==
    \/ \E c \in Chars : Type(c)
    \/ \E v \in Values(MaxDepth), pretty \in BOOLEAN : Seed(v, pretty)
    \/ \E b \in Befores, a \in Afters : Call(b, a)
    \/ Call(LongProse, <<>>)

Spec == Init /\ [][Next]_vars

\* The book text grows by one character.
Write(c) ==
    /\ cpc = "idle"
    /\ Len(full_text) < MaxText
    /\ full_text' = Append(full_text, c)
    /\ UNCHANGED <<before, body, after, pc, result, start_pos, end_pos, cpc, chapter>>

\* extract_chapter_text(full_text, sp, ep) returns or raises.
Extract(sp, ep) ==
    /\ cpc = "idle"
    /\ start_pos' = sp
    /\ end_pos' = ep
    /\ chapter' = ExtractChapterText(full_text, sp, ep)
    /\ cpc' = IF chapter'.raised THEN "raised" ELSE "returned"
    /\ UNCHANGED <<before, body, after, pc, result, full_text>>

NextChapter ==
    \/ \E c \in BookChars : Write(c)
    \/ \E sp \in Positions, ep \in Positions : Extract(sp, ep)

\* The calls of extract_chapter_text on their own.
SpecChapter == Init /\ [][NextChapter]_vars

TypeOK ==
    /\ pc \in {"compose", "returned", "raised"}
    /\ result.raised \in BOOLEAN
    /\ pc = "raised" => result.raised
    /\ pc = "returned" => ~result.raised

(* ---------------- notions the properties use ---------------- *)

Called == pc # "compose"

\* The argument after the strip and the fence removal.
Defenced == Defence(Strip(input))

\* parse(T) of a valid text T.
Parse(T) == Loads(T).v

ArrayShaped(T) == Loads(T).ok /\ Tag(Loads(T).v) = "arr"

ObjectShaped(T) == Loads(T).ok /\ Tag(Loads(T).v) = "obj"

StructuredText(T) == ArrayShaped(T) \/ ObjectShaped(T)

Has(s, c) == \E i \in 1..Len(s) : s[i] = c

\* snip occurs in msg.
Embeds(msg, snip) ==
    \E i \in 0..(Len(msg) - Len(snip)) : SubSeq(msg, i + 1, i + Len(snip)) = snip

\* The array pattern finds a span of t that parses; its value.
ArrayOk(t) == TrySpan(ArrayMatch(t)).ok

ArrayVal(t) == TrySpan(ArrayMatch(t)).v

ObjectOk(t) == TrySpan(ObjectMatch(t)).ok

ObjectVal(t) == TrySpan(ObjectMatch(t)).v

(* ---------------- C1 ---------------- *)

\* The outcome r is the first success among the direct parse d, the array
\* span a and the object span o, or a raise when there is none.
FirstSuccess(r, d, a, o) ==
    /\ r.raised <=> (~d.ok /\ ~a.ok /\ ~o.ok)
    /\ d.ok => (r.strategy = "direct" /\ r.value = d.v)
    /\ (~d.ok /\ a.ok) => (r.strategy = "array" /\ r.value = a.v)
    /\ (~d.ok /\ ~a.ok /\ o.ok) => (r.strategy = "object" /\ r.value = o.v)

FirstSuccessOn(r, t) ==
    FirstSuccess(r, Loads(t), TrySpan(ArrayMatch(t)), TrySpan(ObjectMatch(t)))

\* C1: parse_json_response raises if and only if the direct parse of the
\* stripped, de-fenced text, the array span and the object span all fail;
\* otherwise it returns the value of the first of the three, in that order,
\* that succeeds, a later one being used only when every earlier one failed.
C1_FirstSuccessWins == Called => FirstSuccessOn(result, Defenced)

\* The array span is returned although the object span parses too, to
\* another value.
C1_Witness ==
    /\ pc = "returned"
    /\ result.strategy = "array"
    /\ ObjectOk(result.text)
    /\ ObjectVal(result.text) # result.value

(* ---------------- C2 ---------------- *)

C3_NoBracketsRaises ==
    (Called /\ ~Has(input, LB) /\ ~Has(input, RB)
            /\ ~Has(input, LC) /\ ~Has(input, RC))
    => result.raised

(* ---------------- C4 ---------------- *)

\* C4: a returned value is an object or an array, never a scalar.
C4_ReturnsStructured == pc = "returned" => IsStructured(result.value)

(* ---------------- C5 ---------------- *)

\* C5 as stated: the error message embeds the first 200 characters of the
\* argument as it was passed in.
C5_MessageEmbedsOriginal ==
    pc = "raised" => Embeds(result.message, Take(input, SnippetLen))

\* C5 amended: the error message is the fixed prefix, then the first 200
\* characters of the stripped and de-fenced text, then three dots.
C5_MessageEmbedsDefenced ==
    pc = "raised" =>
        result.message = MsgPrefix \o Take(Defenced, SnippetLen) \o MsgSuffix

\* A text longer than the slice is rejected: the message holds 200 of its
\* characters and not the rest.
C5_Witness ==
    /\ pc = "raised"
    /\ Len(Defenced) > SnippetLen
    /\ Len(result.message) = Len(MsgPrefix) + SnippetLen + Len(MsgSuffix)

(* ---------------- C6 ---------------- *)

\* An opening fence line: optional white space, three backticks, an optional
\* language tag, a line break.
IsFenceOpen(b) ==
    /\ StartsWith(Strip(b), Fence)
    /\ b # <<>> /\ b[Len(b)] = NL
    /\ Len(Split(Strip(b))) = 1

\* A closing fence line: a line break, three backticks, optional white space.
IsFenceClose(a) == a # <<>> /\ a[1] = NL /\ Strip(a) = Fence

\* C6: for a valid array or object text T, parse_json_response of T between
\* an opening fence line and a closing fence line is parse(T).
C6_FencedIsParsed ==
    (Called /\ StructuredText(body) /\ IsFenceOpen(before) /\ IsFenceClose(after))
    => (~result.raised /\ result.value = Parse(body))

\* A payload of several lines, with an array inside an object, in a fence
\* that has a language tag and white space around it.
C6_Witness ==
    /\ pc = "returned"
    /\ before = <<SP>> \o Fence \o <<"x", NL>>
    /\ after = <<NL>> \o Fence \o <<SP, NL>>
    /\ ObjectShaped(body)
    /\ Has(body, NL)
    /\ Has(body, LB)
    /\ result.value = Parse(body)

(* ---------------- C7 ---------------- *)

\* C7: for a valid array or object text T with nothing around it,
\* parse_json_response returns parse(T), by the direct parse.
C7_CleanIsDirect ==
    (Called /\ StructuredText(body) /\ before = <<>> /\ after = <<>>)
    => (~result.raised /\ result.strategy = "direct" /\ result.value = Parse(body))

\* A clean object text whose array span parses too, to another value.
C7_Witness ==
    /\ pc = "returned"
    /\ before = <<>> /\ after = <<>>
    /\ ObjectShaped(body)
    /\ ArrayOk(body)
    /\ result.strategy = "direct"
    /\ result.value = Parse(body)
    /\ result.value # ArrayVal(body)

(* ---------------- C8 ---------------- *)

SpanOk(s) == ArrayOk(s) \/ ObjectOk(s)

SpanVal(s) == IF ArrayOk(s) THEN ArrayVal(s) ELSE ObjectVal(s)

\* The outcome r is the parse a of the array span when there is one, else
\* the parse o of the object span when there is one, else a raise.
FromSpans(r, a, o) ==
    IF a.ok THEN ~r.raised /\ r.value = a.v
    ELSE IF o.ok THEN ~r.raised /\ r.value = o.v
    ELSE r.raised

FromSpansOn(r, t) ==
    ~Loads(t).ok => FromSpans(r, TrySpan(ArrayMatch(t)), TrySpan(ObjectMatch(t)))

ProseAround(p, T) ==
    /\ p # <<>>
    /\ ArrayShaped(T) => (~Has(p, LB) /\ ~Has(p, RB))
    /\ ObjectShaped(T) => (~Has(p, LC) /\ ~Has(p, RC))

\* C10: one array or object text T between non-empty prose without brackets
\* of the kind of T is returned as parse(T), never as a part of it.  Stated
\* for the texts in which T is the only payload (the text as a whole is not
\* valid JSON) and that do not start with three backticks, where the fence
\* removal plays no part.
C10_WholePayload ==
    (Called /\ StructuredText(body)
       /\ ProseAround(before, body) /\ ProseAround(after, body)
       /\ ~Loads(Strip(input)).ok
       /\ ~StartsWith(Strip(input), Fence))
    => (~result.raised /\ result.value = Parse(body))

(* ---------------- C11 ---------------- *)

\* A character of a language tag: no white space, backtick, bracket, quote,
\* colon or comma.
IsTagChar(c) == ~IsSpace(c) /\ c \notin {BT, LB, RB, LC, RC, QT, CL, CM}

\* A fence marker line: three backticks, an optional language tag, optional
\* white space after it.
IsFenceMarker(line) ==
    /\ StartsWith(line, Fence)
    /\ \A i \in 4..Len(RStrip(line)) : IsTagChar(line[i])

\* A bare fence marker line: three backticks and white space only.
IsBareFence(line) == Strip(line) = Fence

\* The lines of s without the last one when it is a bare fence.
DropClosing(lines) ==
    IF IsBareFence(lines[Len(lines)])
    THEN SubSeq(lines, 1, Len(lines) - 1)
    ELSE lines

\* C11 as stated, for the stripped text s and the text out the function
\* works on: when the first line of s is a fence marker, out is the lines of
\* s without the first one, and without the last one when that is a bare
\* fence, in order (and trimmed); otherwise out is s.
OnlyFenceLinesGo(s, out) ==
    IF IsFenceMarker(Split(s)[1])
    THEN out = Strip(Join(Tail(DropClosing(Split(s)))))
    ELSE out = s

FirstLineGoes(s, out) ==
    LET lines == Split(s)
        n == Len(lines)
    IN  /\ ~StartsWith(s, Fence) => out = s
        /\ (StartsWith(s, Fence) /\ IsBareFence(lines[n])) =>
               out = Strip(Join(SubSeq(lines, 2, n - 1)))
        /\ (StartsWith(s, Fence) /\ ~IsBareFence(lines[n])) =>
               out = Strip(Join(SubSeq(lines, 2, n)))

C12_ClampedSlice ==
    cpc # "idle" =>
        LET lo == Max(0, start_pos)
            hi == Min(Len(full_text), end_pos)
        IN  /\ chapter.raised <=> lo >= hi
            /\ ~chapter.raised =>
                   /\ chapter.value # <<>>
                   /\ Len(chapter.value) = hi - lo
                   /\ \A i \in 1..(hi - lo) : chapter.value[i] = full_text[lo + i]

\* A negative start and an end beyond the text: the whole text comes back,
\* with two different characters in it.
C12_Witness ==
    /\ cpc = "returned"
    /\ start_pos < 0
    /\ end_pos > Len(full_text)
    /\ Len(full_text) > 1
    /\ chapter.value = full_text
    /\ \E i \in 1..Len(full_text) : full_text[i] # full_text[1]

====
